---- MODULE Spec2Model ----
(***************************************************************************)
(* Model of the task batch-processing pipeline of src/Q4.py: main seeds    *)
(* the tasks table, starts the accumulator async_update_batch and one      *)
(* process_task coroutine per task id, waits for the workers               *)
(* (asyncio.gather), waits for update_queue.join() and cancels the         *)
(* accumulator.  Every action is one run of a coroutine from one await to  *)
(* the next, which is the unit the asyncio event loop interleaves.         *)
(***************************************************************************)
EXTENDS Integers, Sequences, FiniteSets, TLC

\* Number of tasks seeded and of workers started; 1000 in Q4.py:79 and
\* Q4.py:97, scaled down.
NumTasks == 3

\* Size cutoff of a batch; 100 in Q4.py:24, scaled down.
MAX_BATCH == 2

\* Largest number of rows the tasks table holds before the run starts.
MaxPrior == 1

\* (cpu_usage, memory_usage) pairs a worker can measure.  The resident set
\* size of a live process is never 0; cpu_percent() can be 0.
Samples == {<<0, 1>>, <<1, 2>>}

\* The row inserted by populate_tasks.
SeedRow == [status |-> "pending", cpu_usage |-> 0, memory_usage |-> 0]

\* The row an UPDATE statement of async_update_batch leaves behind.
CompletedRow(cpu, mem) ==
    [status |-> "completed", cpu_usage |-> cpu, memory_usage |-> mem]

\* Rows a previous run of the same program can have left in tasks.db.
PriorRows == {SeedRow} \cup {CompletedRow(s[1], s[2]) : s \in Samples}

PriorTables == UNION {[1..k -> PriorRows] : k \in 0..MaxPrior}

VARIABLES
    n_tasks,          \* number of tasks of this run (1000 in the source)
    table_exists,     \* tasks.db holds the table tasks
    tasks,            \* committed content of the table: row id -> row
    pending,          \* records whose UPDATE ran in the open transaction
    update_queue,     \* asyncio.Queue: records not yet taken
    unfinished_tasks, \* asyncio.Queue counter that join() waits on
    updates,          \* the accumulator's current batch
    apc,              \* await point of async_update_batch
    mpc,              \* await point of main
    wpc,              \* await point of each process_task
    published,        \* history: records put on update_queue, in order
    started,          \* history: batches whose flush began
    committed,        \* history: batches whose transaction committed
    seeded,           \* history: ids given to the rows of populate_tasks
    prior_tasks,      \* history: content of the table when the run started
    stop_point        \* history: <<await point, UPDATEs run>> at which the
                      \* accumulator was ended by a fault or by cancel()

vars == <<n_tasks, table_exists, tasks, pending, update_queue, unfinished_tasks,
          updates, apc, mpc, wpc, published, started, committed, seeded,
          prior_tasks, stop_point>>

Workers == 1..NumTasks

\* range(1, 1001) of main: the ids the workers of this run target.
TaskIds == 1..n_tasks

FlushPoints == {"begin", "update", "commit"}

(***************************************************************************)
(* State of the other programs of the repository.  Each program is a       *)
(* process of its own with its own storage; each has its own specification *)
(* below, in which the state of the others does not change.                *)
(***************************************************************************)

\* Largest value of the retries parameter of ssh_connect (Q1.py:69; the
\* default, which process_ip uses, is 3).
MaxRetries == 3

\* Number of addresses main hands to process_ip; the 65534 hosts of
\* 172.29.0.0/16 in Q1.py:121, scaled down.
NumIps == 2

\* Largest length of the hosts list of execute_on_network (3 in Q5.py:103).
MaxHosts == 3

\* Number of concurrent POST /users/ requests; 100 in
\* test_create_user.py:59, scaled down.
NumRequests == 3

\* Largest number of lines of the stream listen_ssh_command reads.
MaxLines == 3

VARIABLES
    retries,          \* Q1: the retries argument of ssh_connect
    ip_addresses,     \* Q1: rows <<ip, is_active, is_ssh_connected>>
    ppc,              \* Q1: await point of each process_ip
    attempt,          \* Q1: the local attempt of each ssh_connect
    connects,         \* Q1 history: asyncssh.connect calls made per ip
    ping_result,      \* Q1 history: what ping_ip returned per ip
    ssh_result,       \* Q1 history: how ssh_connect ended per ip
    q1_mpc            \* Q1: await point of main

q1vars == <<retries, ip_addresses, ppc, attempt, connects, ping_result,
            ssh_result, q1_mpc>>

VARIABLES
    hosts,            \* Q5: the hosts argument of execute_on_network
    connections,      \* Q5: the dict connections, host -> connection
    conn_keys,        \* Q5: the keys of connections in insertion order
    opened,           \* Q5 history: connections asyncssh.connect returned
    closed,           \* Q5 history: connections closed and waited for
    results,          \* Q5: state and result of each execute_command task
    error,            \* Q5: an exception is propagating out of the try
    epc               \* Q5: await point of execute_on_network

q5vars == <<hosts, connections, conn_keys, opened, closed, results, error,
            epc>>

VARIABLES
    users,            \* Q3: usernames of the committed rows of users
    prior_users,      \* Q3 history: users before the requests arrived
    req_username,     \* Q3: the username of each request
    rpc,              \* Q3: await point of each create_user
    response          \* Q3: status code each request was answered with

q3vars == <<users, prior_users, req_username, rpc, response>>

VARIABLES
    stream,           \* Q6: the lines the remote command writes
    pos,              \* Q6: lines read so far
    file,             \* Q6: records written to parsed_dhcp_requests.txt
    lpc               \* Q6: position of listen_ssh_command

q6vars == <<stream, pos, file, lpc>>

Ips == 1..NumIps

Requests == 1..NumRequests

\* Q1.py is not running: nothing was scanned.
Q1Idle ==
    /\ retries = 0
    /\ ip_addresses = {}
    /\ ppc = [ip \in Ips |-> "unstarted"]
    /\ attempt = [ip \in Ips |-> 0]
    /\ connects = [ip \in Ips |-> 0]
    /\ ping_result = [ip \in Ips |-> "none"]
    /\ ssh_result = [ip \in Ips |-> "none"]
    /\ q1_mpc = "unstarted"

\* Q5.py is not running: no host, no connection.
Q5Idle ==
    /\ hosts = <<>>
    /\ connections = <<>>
    /\ conn_keys = <<>>
    /\ opened = {}
    /\ closed = {}
    /\ results = <<>>
    /\ error = FALSE
    /\ epc = "unstarted"

\* The service of Q3 has no request in progress.
Q3Idle ==
    /\ users = {}
    /\ prior_users = {}
    /\ req_username = [r \in Requests |-> "none"]
    /\ rpc = [r \in Requests |-> "unstarted"]
    /\ response = [r \in Requests |-> 0]

\* Q6.py is not running: nothing to read, nothing written.
Q6Idle ==
    /\ stream = <<>>
    /\ pos = 0
    /\ file = <<>>
    /\ lpc = "unstarted"

\* Q4.py is not running.
Q4Idle ==
    /\ n_tasks = 0
    /\ table_exists = FALSE
    /\ tasks = <<>>
    /\ pending = <<>>
    /\ update_queue = <<>>
    /\ unfinished_tasks = 0
    /\ updates = <<>>
    /\ apc = "unstarted"
    /\ mpc = "unstarted"
    /\ wpc = [w \in Workers |-> "unstarted"]
    /\ published = <<>>
    /\ started = <<>>
    /\ committed = <<>>
    /\ seeded = {}
    /\ prior_tasks = <<>>
    /\ stop_point = <<"none", 0>>

\* The state of the programs other than Q4.py.
others == <<q1vars, q5vars, q3vars, q6vars>>

\* Variant of ApplyUpdate: the statement sets the status and leaves the usage
\* columns alone.
ApplyUpdate_status_only(t, rec) ==
    IF rec[1] \in DOMAIN t
    THEN [t EXCEPT ![rec[1]].status = "completed"]
    ELSE t

\* UPDATE tasks SET status = 'completed', ... WHERE id = ?
ApplyUpdate(t, rec) ==
    IF rec[1] \in DOMAIN t
    THEN [t EXCEPT ![rec[1]] = CompletedRow(rec[2], rec[3])]
    ELSE t

RECURSIVE ApplyAll(_, _)
ApplyAll(t, recs) ==
    IF recs = <<>> THEN t
    ELSE ApplyAll(ApplyUpdate(t, Head(recs)), Tail(recs))

Init ==
    /\ n_tasks \in 0..NumTasks
    /\ table_exists \in BOOLEAN
    /\ tasks \in PriorTables
    /\ (~table_exists => tasks = <<>>)
    /\ pending = <<>>
    /\ update_queue = <<>>
    /\ unfinished_tasks = 0
    /\ updates = <<>>
    /\ apc = "unstarted"
    /\ mpc = "setup"
    /\ wpc = [w \in Workers |-> "unstarted"]
    /\ published = <<>>
    /\ started = <<>>
    /\ committed = <<>>
    /\ seeded = {}
    /\ prior_tasks = tasks
    /\ stop_point = <<"none", 0>>
    /\ Q1Idle /\ Q5Idle /\ Q3Idle /\ Q6Idle

(***************************************************************************)
(* main, up to the first await                                             *)
(***************************************************************************)

\* setup_database(): CREATE TABLE IF NOT EXISTS tasks, commit.
setup_database ==
    /\ mpc = "setup"
    /\ table_exists' = TRUE
    /\ mpc' = "populate"
    /\ UNCHANGED <<n_tasks, tasks, pending, update_queue, unfinished_tasks,
                   updates, apc, wpc, published, started, committed, seeded>>
    /\ UNCHANGED <<prior_tasks, stop_point>>
    /\ UNCHANGED others

\* Variant of populate_tasks: the rows are written with the explicit ids
\* 1..n (INSERT OR REPLACE), over whatever the table held.
populate_tasks_replace ==
    /\ mpc = "populate"
    /\ table_exists
    /\ tasks' = [i \in 1..n_tasks |-> SeedRow]
    /\ seeded' = 1..n_tasks
    /\ mpc' = "start"
    /\ UNCHANGED <<n_tasks, table_exists, pending, update_queue,
                   unfinished_tasks, updates, apc, wpc, published, started,
                   committed>>
    /\ UNCHANGED <<prior_tasks, stop_point>>
    /\ UNCHANGED others

\* populate_tasks(): one INSERT per task, the id is the next free rowid
\* (INTEGER PRIMARY KEY), one commit at the end.
populate_tasks ==
    /\ mpc = "populate"
    /\ table_exists
    /\ tasks' = tasks \o [i \in 1..n_tasks |-> SeedRow]
    /\ seeded' = (Len(tasks) + 1)..(Len(tasks) + n_tasks)
    /\ mpc' = "start"
    /\ UNCHANGED <<n_tasks, table_exists, pending, update_queue,
                   unfinished_tasks, updates, apc, wpc, published, started,
                   committed>>
    /\ UNCHANGED <<prior_tasks, stop_point>>
    /\ UNCHANGED others

\* Variant of startup_fault: the error is caught and logged and main goes on
\* with its next statement.
startup_fault_swallowed ==
    /\ mpc \in {"setup", "populate"}
    /\ mpc' = IF mpc = "setup" THEN "populate" ELSE "start"
    /\ UNCHANGED <<n_tasks, table_exists, tasks, pending, update_queue,
                   unfinished_tasks, updates, apc, wpc, published, started,
                   committed, seeded>>
    /\ UNCHANGED <<prior_tasks, stop_point>>
    /\ UNCHANGED others

\* sqlite3 raises in setup_database or populate_tasks (file unreachable,
\* database locked for 30 s): nothing was committed, main ends with the
\* error before anything is started.
startup_fault ==
    /\ mpc \in {"setup", "populate"}
    /\ mpc' = "failed"
    /\ UNCHANGED <<n_tasks, table_exists, tasks, pending, update_queue,
                   unfinished_tasks, updates, apc, wpc, published, started,
                   committed, seeded>>
    /\ UNCHANGED <<prior_tasks, stop_point>>
    /\ UNCHANGED others

(***************************************************************************)
(* What Task.cancel() does to async_update_batch, by the await it is       *)
(* suspended at.  CancelledError leaves the `async with aiosqlite.connect` *)
(* block, which closes the connection: an open transaction is rolled back. *)
(* A commit that was already handed to the connection's thread may still   *)
(* run.                                                                    *)
(***************************************************************************)
cancel ==
    \/ /\ apc \in {"connecting", "get", "begin", "update"}
       /\ apc' = "cancelled"
       /\ pending' = <<>>
       /\ stop_point' = <<apc, Len(pending)>>
       /\ UNCHANGED <<tasks, committed>>
    \/ /\ apc = "commit"
       /\ apc' = "cancelled"
       /\ pending' = <<>>
       /\ stop_point' = <<apc, Len(pending)>>
       /\ \/ /\ tasks' = ApplyAll(tasks, pending)
             /\ committed' = Append(committed, updates)
          \/ UNCHANGED <<tasks, committed>>
    \/ /\ apc \in {"crashed", "cancelled"}
       /\ UNCHANGED <<apc, pending, tasks, committed, stop_point>>

\* Variant of main_start: main suspends once after create_task, so the
\* accumulator starts running also when there is no worker.
main_start_always_gather ==
    /\ mpc = "start"
    /\ mpc' = "gather"
    /\ apc' = "connecting"
    /\ wpc' = [w \in Workers |->
                  IF w \in TaskIds THEN "sleeping" ELSE "unstarted"]
    /\ UNCHANGED <<n_tasks, table_exists, tasks, pending, update_queue,
                   unfinished_tasks, updates, published, started, committed,
                   seeded>>
    /\ UNCHANGED <<prior_tasks, stop_point>>
    /\ UNCHANGED others

\* main lines 95-98: create_task(async_update_batch()), build the worker
\* coroutines, await gather.  With no worker, gather() and join() return
\* without suspending and the accumulator is cancelled before its first step.
main_start ==
    /\ mpc = "start"
    /\ IF n_tasks = 0
       THEN /\ mpc' = "done"
            /\ apc' = "cancelled"
            /\ wpc' = wpc
            /\ stop_point' = <<apc, 0>>
       ELSE /\ mpc' = "gather"
            /\ apc' = "connecting"
            /\ wpc' = [w \in Workers |->
                          IF w \in TaskIds THEN "sleeping" ELSE "unstarted"]
            /\ stop_point' = stop_point
    /\ UNCHANGED <<n_tasks, table_exists, tasks, pending, update_queue,
                   unfinished_tasks, updates, published, started, committed,
                   seeded>>
    /\ prior_tasks' = prior_tasks
    /\ UNCHANGED others

(***************************************************************************)
(* process_task(task_id)                                                   *)
(***************************************************************************)

\* Variant of process_task: every worker publishes under the id of the first
\* task instead of its own.
process_task_same_id(task_id) ==
    /\ wpc[task_id] = "sleeping"
    /\ \E s \in Samples :
          /\ update_queue' = Append(update_queue, <<1, s[1], s[2]>>)
          /\ published' = Append(published, <<1, s[1], s[2]>>)
    /\ unfinished_tasks' = unfinished_tasks + 1
    /\ wpc' = [wpc EXCEPT ![task_id] = "done"]
    /\ UNCHANGED <<n_tasks, table_exists, tasks, pending, updates, apc, mpc,
                   started, committed, seeded>>
    /\ UNCHANGED <<prior_tasks, stop_point>>
    /\ UNCHANGED others

\* After the sleep: read cpu and memory, put the record (the queue is
\* unbounded, put never suspends), log, return.
process_task(task_id) ==
    /\ wpc[task_id] = "sleeping"
    /\ \E s \in Samples :
          /\ update_queue' = Append(update_queue, <<task_id, s[1], s[2]>>)
          /\ published' = Append(published, <<task_id, s[1], s[2]>>)
    /\ unfinished_tasks' = unfinished_tasks + 1
    /\ wpc' = [wpc EXCEPT ![task_id] = "done"]
    /\ UNCHANGED <<n_tasks, table_exists, tasks, pending, updates, apc, mpc,
                   started, committed, seeded>>
    /\ UNCHANGED <<prior_tasks, stop_point>>
    /\ UNCHANGED others

\* psutil raises in process_task: the coroutine ends with the exception and
\* puts nothing.
measurement_fault(task_id) ==
    /\ wpc[task_id] = "sleeping"
    /\ wpc' = [wpc EXCEPT ![task_id] = "failed"]
    /\ UNCHANGED <<n_tasks, table_exists, tasks, pending, update_queue,
                   unfinished_tasks, updates, apc, mpc, published, started,
                   committed, seeded>>
    /\ UNCHANGED <<prior_tasks, stop_point>>
    /\ UNCHANGED others

(***************************************************************************)
(* async_update_batch()                                                    *)
(***************************************************************************)

\* Variant of ReceiveMore: the loop test is <= instead of <.
ReceiveMore_inclusive(batch) == Len(batch) <= MAX_BATCH

\* line 24: the receive loop goes on while the batch is below the cutoff.
ReceiveMore(batch) == Len(batch) < MAX_BATCH

\* aiosqlite.connect succeeded; first pass of `while True`, updates = [].
connect ==
    /\ apc = "connecting"
    /\ apc' = "get"
    /\ updates' = <<>>
    /\ UNCHANGED <<n_tasks, table_exists, tasks, pending, update_queue,
                   unfinished_tasks, mpc, wpc, published, started, committed,
                   seeded>>
    /\ UNCHANGED <<prior_tasks, stop_point>>
    /\ UNCHANGED others

\* Variant of receive: the newest record of the queue is taken (LIFO).
receive_lifo ==
    /\ apc = "get"
    /\ update_queue # <<>>
    /\ updates' = Append(updates, update_queue[Len(update_queue)])
    /\ update_queue' = SubSeq(update_queue, 1, Len(update_queue) - 1)
    /\ unfinished_tasks' = unfinished_tasks - 1
    /\ IF ReceiveMore(updates')
       THEN /\ apc' = "get"
            /\ started' = started
       ELSE /\ apc' = "begin"
            /\ started' = Append(started, updates')
    /\ UNCHANGED <<n_tasks, table_exists, tasks, pending, mpc, wpc,
                   published, committed, seeded>>
    /\ UNCHANGED <<prior_tasks, stop_point>>
    /\ UNCHANGED others

\* Variant of receive: the record replaces the batch (updates = [task_update])
\* instead of being appended to it.
receive_overwrite ==
    /\ apc = "get"
    /\ update_queue # <<>>
    /\ updates' = <<Head(update_queue)>>
    /\ update_queue' = Tail(update_queue)
    /\ unfinished_tasks' = unfinished_tasks - 1
    /\ IF ReceiveMore(updates')
       THEN /\ apc' = "get"
            /\ started' = started
       ELSE /\ apc' = "begin"
            /\ started' = Append(started, updates')
    /\ UNCHANGED <<n_tasks, table_exists, tasks, pending, mpc, wpc,
                   published, committed, seeded>>
    /\ UNCHANGED <<prior_tasks, stop_point>>
    /\ UNCHANGED others

\* lines 25-27: get() returns a record, it is appended and task_done() is
\* called at once; a full batch leaves the loop and opens the transaction.
receive ==
    /\ apc = "get"
    /\ update_queue # <<>>
    /\ updates' = Append(updates, Head(update_queue))
    /\ update_queue' = Tail(update_queue)
    /\ unfinished_tasks' = unfinished_tasks - 1
    /\ IF ReceiveMore(updates')
       THEN /\ apc' = "get"
            /\ started' = started
       ELSE /\ apc' = "begin"
            /\ started' = Append(started, updates')
    /\ UNCHANGED <<n_tasks, table_exists, tasks, pending, mpc, wpc,
                   published, committed, seeded>>
    /\ UNCHANGED <<prior_tasks, stop_point>>
    /\ UNCHANGED others

\* main can run: its await of gather (line 98) or of join (line 100) has
\* completed.  It then runs on the next pass of the event loop.
MainRunnable ==
    \/ /\ mpc = "gather"
       /\ \/ \A w \in TaskIds : wpc[w] = "done"
          \/ \E w \in TaskIds : wpc[w] = "failed"
    \/ /\ mpc = "join"
       /\ unfinished_tasks = 0

\* Variant of timeout: the timeout always restarts the wait, also with a
\* non-empty batch.
timeout_keep_waiting ==
    /\ apc = "get"
    /\ update_queue = <<>>
    /\ ~MainRunnable
    /\ UNCHANGED vars
    /\ UNCHANGED others

\* Variant of timeout: the test of line 30 is missing, every timeout opens a
\* transaction, also for an empty batch (BEGIN, no UPDATE, commit).
timeout_flush_always ==
    /\ apc = "get"
    /\ update_queue = <<>>
    /\ ~MainRunnable
    /\ apc' = IF updates # <<>> THEN "begin" ELSE "commit"
    /\ started' = Append(started, updates)
    /\ UNCHANGED <<n_tasks, table_exists, tasks, pending, update_queue,
                   unfinished_tasks, updates, mpc, wpc, published, committed,
                   seeded>>
    /\ UNCHANGED <<prior_tasks, stop_point>>
    /\ UNCHANGED others

\* lines 28-31: wait_for(get(), timeout=5) times out on an empty queue.  A
\* non-empty batch is flushed; an empty one restarts the wait.  The 5 s
\* timer does not expire ahead of a coroutine that is already runnable.
timeout ==
    /\ apc = "get"
    /\ update_queue = <<>>
    /\ ~MainRunnable
    /\ IF updates # <<>>
       THEN /\ apc' = "begin"
            /\ started' = Append(started, updates)
       ELSE /\ apc' = "get"
            /\ started' = started
    /\ UNCHANGED <<n_tasks, table_exists, tasks, pending, update_queue,
                   unfinished_tasks, updates, mpc, wpc, published, committed,
                   seeded>>
    /\ UNCHANGED <<prior_tasks, stop_point>>
    /\ UNCHANGED others

\* line 32: BEGIN ran; the first UPDATE is awaited.
begin ==
    /\ apc = "begin"
    /\ apc' = "update"
    /\ pending' = <<>>
    /\ UNCHANGED <<n_tasks, table_exists, tasks, update_queue,
                   unfinished_tasks, updates, mpc, wpc, published, started,
                   committed, seeded>>
    /\ UNCHANGED <<prior_tasks, stop_point>>
    /\ UNCHANGED others

\* Variant of update_stmt: each UPDATE is committed on its own.
update_stmt_autocommit ==
    /\ apc = "update"
    /\ pending' = Append(pending, updates[Len(pending) + 1])
    /\ tasks' = ApplyUpdate(tasks, updates[Len(pending) + 1])
    /\ apc' = IF Len(pending') = Len(updates) THEN "commit" ELSE "update"
    /\ UNCHANGED <<n_tasks, table_exists, update_queue, unfinished_tasks,
                   updates, mpc, wpc, published, started, committed, seeded>>
    /\ UNCHANGED <<prior_tasks, stop_point>>
    /\ UNCHANGED others

\* lines 33-37: the next UPDATE of the batch ran inside the transaction.
update_stmt ==
    /\ apc = "update"
    /\ pending' = Append(pending, updates[Len(pending) + 1])
    /\ apc' = IF Len(pending') = Len(updates) THEN "commit" ELSE "update"
    /\ UNCHANGED <<n_tasks, table_exists, tasks, update_queue,
                   unfinished_tasks, updates, mpc, wpc, published, started,
                   committed, seeded>>
    /\ UNCHANGED <<prior_tasks, stop_point>>
    /\ UNCHANGED others

\* lines 38-39 and 21: the transaction commits, the batch is logged and the
\* next pass starts with updates = [].
commit ==
    /\ apc = "commit"
    /\ tasks' = ApplyAll(tasks, pending)
    /\ committed' = Append(committed, updates)
    /\ pending' = <<>>
    /\ updates' = <<>>
    /\ apc' = "get"
    /\ UNCHANGED <<n_tasks, table_exists, update_queue, unfinished_tasks,
                   mpc, wpc, published, started, seeded>>
    /\ UNCHANGED <<prior_tasks, stop_point>>
    /\ UNCHANGED others

\* aiosqlite raises at connect, BEGIN, an UPDATE or commit.  Nothing in
\* async_update_batch catches it: the exception leaves `while True` and the
\* `async with` block closes the connection (rollback), the task is over.
storage_fault ==
    /\ apc \in {"connecting"} \cup FlushPoints
    /\ apc' = "crashed"
    /\ pending' = <<>>
    /\ UNCHANGED <<n_tasks, table_exists, tasks, update_queue,
                   unfinished_tasks, updates, mpc, wpc, published, started,
                   committed, seeded>>
    /\ stop_point' = <<apc, Len(pending)>>
    /\ prior_tasks' = prior_tasks
    /\ UNCHANGED others

(***************************************************************************)
(* main, from the await of asyncio.gather on                               *)
(***************************************************************************)

\* Variant of main_gather: line 100 is missing, the accumulator is cancelled
\* as soon as the workers are done.
main_gather_skip_join ==
    /\ mpc = "gather"
    /\ \A w \in TaskIds : wpc[w] = "done"
    /\ mpc' = "done"
    /\ cancel
    /\ UNCHANGED <<n_tasks, table_exists, update_queue, unfinished_tasks,
                   updates, wpc, published, started, seeded>>
    /\ prior_tasks' = prior_tasks
    /\ UNCHANGED others

\* line 98 returns: every worker is done.  join() returns without suspending
\* when nothing is unfinished, and line 101 cancels the accumulator.
main_gather ==
    /\ mpc = "gather"
    /\ \A w \in TaskIds : wpc[w] = "done"
    /\ IF unfinished_tasks = 0
       THEN /\ mpc' = "done"
            /\ cancel
       ELSE /\ mpc' = "join"
            /\ UNCHANGED <<apc, pending, tasks, committed, stop_point>>
    /\ UNCHANGED <<n_tasks, table_exists, update_queue, unfinished_tasks,
                   updates, wpc, published, started, seeded>>
    /\ prior_tasks' = prior_tasks
    /\ UNCHANGED others

\* line 98 raises the exception of a failed worker: main ends with it and
\* asyncio.run cancels every task still pending.
main_gather_raise ==
    /\ mpc = "gather"
    /\ \E w \in TaskIds : wpc[w] = "failed"
    /\ mpc' = "failed"
    /\ wpc' = [w \in Workers |->
                  IF wpc[w] = "sleeping" THEN "cancelled" ELSE wpc[w]]
    /\ cancel
    /\ UNCHANGED <<n_tasks, table_exists, update_queue, unfinished_tasks,
                   updates, published, started, seeded>>
    /\ prior_tasks' = prior_tasks
    /\ UNCHANGED others

\* Variant of main_join: join() does not wait for the counter to reach 0.
main_join_no_wait ==
    /\ mpc = "join"
    /\ mpc' = "done"
    /\ cancel
    /\ UNCHANGED <<n_tasks, table_exists, update_queue, unfinished_tasks,
                   updates, wpc, published, started, seeded>>
    /\ prior_tasks' = prior_tasks
    /\ UNCHANGED others

\* lines 100-102: join() returns once every record put has been matched by a
\* task_done(); the accumulator is cancelled and main returns.
main_join ==
    /\ mpc = "join"
    /\ unfinished_tasks = 0
    /\ mpc' = "done"
    /\ cancel
    /\ UNCHANGED <<n_tasks, table_exists, update_queue, unfinished_tasks,
                   updates, wpc, published, started, seeded>>
    /\ prior_tasks' = prior_tasks
    /\ UNCHANGED others

Next ==
    \/ setup_database
    \/ populate_tasks
    \/ startup_fault
    \/ main_start
    \/ \E w \in Workers : process_task(w)
    \/ \E w \in Workers : measurement_fault(w)
    \/ connect
    \/ receive
    \/ timeout
    \/ begin
    \/ update_stmt
    \/ commit
    \/ storage_fault
    \/ main_gather
    \/ main_gather_raise
    \/ main_join

Spec == Init /\ [][Next]_vars

TypeOK ==
    /\ n_tasks \in 0..NumTasks
    /\ apc \in {"unstarted", "connecting", "get", "begin", "update", "commit",
                "crashed", "cancelled"}
    /\ mpc \in {"setup", "populate", "start", "gather", "join", "done",
                "failed"}
    /\ unfinished_tasks \in 0..NumTasks

(***************************************************************************)
(* The IP scanner of src/Q1.py: main gathers one process_ip per address;   *)
(* process_ip pings, saves, tries SSH through ssh_connect and saves again. *)
(* save_ip is synchronous: it runs inside the step that calls it.          *)
(***************************************************************************)

\* Rows an earlier scan can have left in ip_addresses.db.
PriorIpTables == SUBSET {<<ip, 1, 1>> : ip \in Ips}

\* Variant of save_ip: a plain INSERT into a table without the primary key.
save_ip_insert(table, ip, is_active, is_ssh_connected) ==
    table \cup {<<ip, is_active, is_ssh_connected>>}

\* save_ip: INSERT OR REPLACE on the primary key ip, commit.
save_ip(table, ip, is_active, is_ssh_connected) ==
    {row \in table : row[1] # ip} \cup {<<ip, is_active, is_ssh_connected>>}

\* Variant of TryAgain: the loop test is <= instead of <.
TryAgain_inclusive(att, r) == att <= r

\* line 83: the loop of ssh_connect goes on while attempt < retries.
TryAgain(att, r) == att < r

\* create_db() has run; main has built the process_ip coroutines and awaits
\* gather, every process_ip awaits its ping.
InitQ1 ==
    /\ retries \in 0..MaxRetries
    /\ ip_addresses \in PriorIpTables
    /\ ppc = [ip \in Ips |-> "ping"]
    /\ attempt = [ip \in Ips |-> 0]
    /\ connects = [ip \in Ips |-> 0]
    /\ ping_result = [ip \in Ips |-> "none"]
    /\ ssh_result = [ip \in Ips |-> "none"]
    /\ q1_mpc = "gather"
    /\ Q4Idle /\ Q5Idle /\ Q3Idle /\ Q6Idle

\* ping_ip returned for ip.  An inactive address is saved as (0, 0) and the
\* coroutine is over.  An active one is saved as (1, 0) and ssh_connect is
\* entered with attempt = 0: it awaits its first asyncssh.connect, or with
\* retries = 0 returns False at once and (1, 0) is saved again.
process_ip(ip) ==
    /\ ppc[ip] = "ping"
    /\ \E is_active \in BOOLEAN :
          IF ~is_active
          THEN /\ ping_result' = [ping_result EXCEPT ![ip] = "inactive"]
               /\ ip_addresses' = save_ip(ip_addresses, ip, 0, 0)
               /\ ppc' = [ppc EXCEPT ![ip] = "done"]
               /\ UNCHANGED <<connects, ssh_result>>
          ELSE /\ ping_result' = [ping_result EXCEPT ![ip] = "active"]
               /\ ip_addresses' = save_ip(ip_addresses, ip, 1, 0)
               /\ IF TryAgain(0, retries)
                  THEN /\ ppc' = [ppc EXCEPT ![ip] = "connect"]
                       /\ connects' = [connects EXCEPT ![ip] = @ + 1]
                       /\ ssh_result' = ssh_result
                  ELSE /\ ppc' = [ppc EXCEPT ![ip] = "done"]
                       /\ connects' = connects
                       /\ ssh_result' = [ssh_result EXCEPT ![ip] = "False"]
    /\ UNCHANGED <<retries, attempt, q1_mpc>>
    /\ UNCHANGED <<vars, q5vars, q3vars, q6vars>>

\* lines 85-87 and 110: asyncssh.connect succeeded, ssh_connect returns True
\* and process_ip saves (1, 1).
ssh_connect_ok(ip) ==
    /\ ppc[ip] = "connect"
    /\ ssh_result' = [ssh_result EXCEPT ![ip] = "True"]
    /\ ip_addresses' = save_ip(ip_addresses, ip, 1, 1)
    /\ ppc' = [ppc EXCEPT ![ip] = "done"]
    /\ UNCHANGED <<retries, attempt, connects, ping_result, q1_mpc>>
    /\ UNCHANGED <<vars, q5vars, q3vars, q6vars>>

\* lines 88-92: asyncssh.connect raised asyncssh.Error or OSError; the
\* attempt is counted and ssh_connect sleeps for a second.
ssh_connect_error(ip) ==
    /\ ppc[ip] = "connect"
    /\ attempt' = [attempt EXCEPT ![ip] = @ + 1]
    /\ ppc' = [ppc EXCEPT ![ip] = "sleep"]
    /\ UNCHANGED <<retries, ip_addresses, connects, ping_result, ssh_result,
                   q1_mpc>>
    /\ UNCHANGED <<vars, q5vars, q3vars, q6vars>>

\* asyncssh.connect raised something line 88 does not catch: the exception
\* leaves ssh_connect and process_ip, the second save_ip is not reached.
ssh_connect_raise(ip) ==
    /\ ppc[ip] = "connect"
    /\ ssh_result' = [ssh_result EXCEPT ![ip] = "raised"]
    /\ ppc' = [ppc EXCEPT ![ip] = "failed"]
    /\ UNCHANGED <<retries, ip_addresses, attempt, connects, ping_result,
                   q1_mpc>>
    /\ UNCHANGED <<vars, q5vars, q3vars, q6vars>>

\* The sleep of line 92 is over: the loop test of line 83 either starts the
\* next asyncssh.connect or ends the loop; then ssh_connect returns False
\* (line 93) and process_ip saves (1, 0).
ssh_connect_retry(ip) ==
    /\ ppc[ip] = "sleep"
    /\ IF TryAgain(attempt[ip], retries)
       THEN /\ ppc' = [ppc EXCEPT ![ip] = "connect"]
            /\ connects' = [connects EXCEPT ![ip] = @ + 1]
            /\ UNCHANGED <<ssh_result, ip_addresses>>
       ELSE /\ ppc' = [ppc EXCEPT ![ip] = "done"]
            /\ connects' = connects
            /\ ssh_result' = [ssh_result EXCEPT ![ip] = "False"]
            /\ ip_addresses' = save_ip(ip_addresses, ip, 1, 0)
    /\ UNCHANGED <<retries, attempt, ping_result, q1_mpc>>
    /\ UNCHANGED <<vars, q5vars, q3vars, q6vars>>

\* line 127 returns: every process_ip is done.
q1_main_gather ==
    /\ q1_mpc = "gather"
    /\ \A ip \in Ips : ppc[ip] = "done"
    /\ q1_mpc' = "done"
    /\ UNCHANGED <<retries, ip_addresses, ppc, attempt, connects, ping_result,
                   ssh_result>>
    /\ UNCHANGED <<vars, q5vars, q3vars, q6vars>>

\* line 127 raises the exception of a failed process_ip: main ends with it
\* and asyncio.run cancels every process_ip still pending.
q1_main_gather_raise ==
    /\ q1_mpc = "gather"
    /\ \E ip \in Ips : ppc[ip] = "failed"
    /\ q1_mpc' = "failed"
    /\ ppc' = [ip \in Ips |->
                  IF ppc[ip] \in {"ping", "connect", "sleep"}
                  THEN "cancelled" ELSE ppc[ip]]
    /\ UNCHANGED <<retries, ip_addresses, attempt, connects, ping_result,
                   ssh_result>>
    /\ UNCHANGED <<vars, q5vars, q3vars, q6vars>>

NextQ1 ==
    \/ \E ip \in Ips : process_ip(ip)
    \/ \E ip \in Ips : ssh_connect_ok(ip)
    \/ \E ip \in Ips : ssh_connect_error(ip)
    \/ \E ip \in Ips : ssh_connect_raise(ip)
    \/ \E ip \in Ips : ssh_connect_retry(ip)
    \/ q1_main_gather
    \/ q1_main_gather_raise

SpecQ1 == InitQ1 /\ [][NextQ1]_q1vars

(***************************************************************************)
(* RemoteSSHClient.execute_on_network of src/Q5.py: connect to the hosts   *)
(* one after the other, run the command on all of them with gather, close  *)
(* the connections of the dict in the finally block.  A connection is      *)
(* named by the position in hosts of the connect call that opened it.      *)
(***************************************************************************)

HostNames == {"h1", "h2"}

\* The lists hosts can be: a List[str], nothing makes its entries distinct.
HostLists == UNION {[1..k -> HostNames] : k \in 1..MaxHosts}

\* execute_on_network has been called: connections = {}, the first
\* self.connect is awaited.
InitQ5 ==
    /\ hosts \in HostLists
    /\ connections = [h \in {} |-> 0]
    /\ conn_keys = <<>>
    /\ opened = {}
    /\ closed = {}
    /\ results = [j \in 1..Len(hosts) |-> "unstarted"]
    /\ error = FALSE
    /\ epc = "connect"
    /\ Q4Idle /\ Q1Idle /\ Q3Idle /\ Q6Idle

\* line 84: connections[host] = value.  An existing key gets the new value.
DictSet(dict, key, value) ==
    [h \in DOMAIN dict \cup {key} |-> IF h = key THEN value ELSE dict[h]]

\* lines 83-90: self.connect(host) returned a connection; it is stored under
\* the host.  After the last host the execute_command tasks are created and
\* gather is awaited.
connect_host ==
    /\ epc = "connect"
    /\ LET i == Cardinality(opened) + 1
           host == hosts[i]
       IN  /\ opened' = opened \cup {i}
           /\ connections' = DictSet(connections, host, i)
           /\ conn_keys' = IF host \in DOMAIN connections
                           THEN conn_keys
                           ELSE Append(conn_keys, host)
           /\ IF i = Len(hosts)
              THEN /\ epc' = "gather"
                   /\ results' = [j \in 1..Len(hosts) |-> "running"]
              ELSE /\ epc' = "connect"
                   /\ results' = results
    /\ UNCHANGED <<hosts, closed, error>>
    /\ UNCHANGED <<vars, q1vars, q3vars, q6vars>>

\* lines 47-49 and 95-98: asyncssh.connect raised, connect re-raises, the
\* finally block starts closing what the dict holds.
connect_host_fail ==
    /\ epc = "connect"
    /\ error' = TRUE
    /\ epc' = IF conn_keys = <<>> THEN "failed" ELSE "closing"
    /\ UNCHANGED <<hosts, connections, conn_keys, opened, closed, results>>
    /\ UNCHANGED <<vars, q1vars, q3vars, q6vars>>

\* lines 64-68: the command of task j ran, its stdout is the result.
execute_command(j) ==
    /\ epc = "gather"
    /\ results[j] = "running"
    /\ results' = [results EXCEPT ![j] = "stdout"]
    /\ UNCHANGED <<hosts, connections, conn_keys, opened, closed, error, epc>>
    /\ UNCHANGED <<vars, q1vars, q3vars, q6vars>>

\* lines 69-71: create_process or communicate raised; the result is "".
execute_command_fail(j) ==
    /\ epc = "gather"
    /\ results[j] = "running"
    /\ results' = [results EXCEPT ![j] = ""]
    /\ UNCHANGED <<hosts, connections, conn_keys, opened, closed, error, epc>>
    /\ UNCHANGED <<vars, q1vars, q3vars, q6vars>>

\* lines 90-97: gather returns the results, they are logged, the finally
\* block closes the first connection of the dict and awaits wait_closed.
gather_results ==
    /\ epc = "gather"
    /\ \A j \in 1..Len(hosts) : results[j] # "running"
    /\ epc' = "closing"
    /\ UNCHANGED <<hosts, connections, conn_keys, opened, closed, results,
                   error>>
    /\ UNCHANGED <<vars, q1vars, q3vars, q6vars>>

\* lines 96-99: wait_closed returned for the next item of the dict; after
\* the last item the function returns, or the pending exception goes on.
close_connection ==
    /\ epc = "closing"
    /\ LET n == Cardinality(closed) + 1
       IN  /\ closed' = closed \cup {connections[conn_keys[n]]}
           /\ epc' = IF n < Len(conn_keys) THEN "closing"
                     ELSE IF error THEN "failed" ELSE "done"
    /\ UNCHANGED <<hosts, connections, conn_keys, opened, results, error>>
    /\ UNCHANGED <<vars, q1vars, q3vars, q6vars>>

NextQ5 ==
    \/ connect_host
    \/ connect_host_fail
    \/ \E j \in 1..Len(hosts) : execute_command(j)
    \/ \E j \in 1..Len(hosts) : execute_command_fail(j)
    \/ gather_results
    \/ close_connection

SpecQ5 == InitQ5 /\ [][NextQ5]_q5vars

(***************************************************************************)
(* create_user of src/Q3/main.py: one coroutine per POST /users/ request.  *)
(* It awaits a SELECT by username, answers 400 when a row came back, and   *)
(* otherwise awaits the INSERT.  users.username is UNIQUE (models.py:19):  *)
(* the database rejects an INSERT of a username some row already has, and  *)
(* create_user does not catch that error, which the framework answers with *)
(* status 500.  The requests differ in their email, so the UNIQUE          *)
(* constraint on email rejects none of them.                               *)
(***************************************************************************)

Usernames == {"u1", "u2"}

\* The requests have arrived; every create_user awaits its SELECT.
InitQ3 ==
    /\ users \in SUBSET Usernames
    /\ prior_users = users
    /\ req_username \in [Requests -> Usernames]
    /\ rpc = [r \in Requests |-> "select"]
    /\ response = [r \in Requests |-> 0]
    /\ Q4Idle /\ Q1Idle /\ Q5Idle /\ Q6Idle

\* lines 95-102: the SELECT returned.  A row: HTTPException 400.  No row:
\* the INSERT is sent and awaited.
create_user_select(r) ==
    /\ rpc[r] = "select"
    /\ IF req_username[r] \in users
       THEN /\ rpc' = [rpc EXCEPT ![r] = "done"]
            /\ response' = [response EXCEPT ![r] = 400]
       ELSE /\ rpc' = [rpc EXCEPT ![r] = "insert"]
            /\ response' = response
    /\ UNCHANGED <<users, prior_users, req_username>>
    /\ UNCHANGED <<vars, q1vars, q5vars, q6vars>>

\* lines 103-104: the INSERT ran.  It adds the row and the request is
\* answered 200, or it violates the UNIQUE constraint, the exception leaves
\* create_user and the request is answered 500.
create_user_insert(r) ==
    /\ rpc[r] = "insert"
    /\ IF req_username[r] \in users
       THEN /\ users' = users
            /\ response' = [response EXCEPT ![r] = 500]
       ELSE /\ users' = users \cup {req_username[r]}
            /\ response' = [response EXCEPT ![r] = 200]
    /\ rpc' = [rpc EXCEPT ![r] = "done"]
    /\ UNCHANGED <<prior_users, req_username>>
    /\ UNCHANGED <<vars, q1vars, q5vars, q6vars>>

NextQ3 ==
    \/ \E r \in Requests : create_user_select(r)
    \/ \E r \in Requests : create_user_insert(r)

SpecQ3 == InitQ3 /\ [][NextQ3]_q3vars

(***************************************************************************)
(* listen_ssh_command and parse_dhcp_request of src/Q6.py.  The stream is  *)
(* a sequence of lines in the format of Q6_regex_test.py: a message starts *)
(* with a TIME: line and has one line per option.  A line is a record of   *)
(* what the patterns and the substring test of the code can see in it:     *)
(* its kind, and for an option of parse_dhcp_request the \S+ value.        *)
(***************************************************************************)

\* The keys of patterns, lines 27-31.
Keys == {"client_identifier", "request_ip", "vendor_class_identifier",
         "host_name"}

\* The value each option line carries (Q6_regex_test.py:48-51).
OptionValue ==
    [client_identifier |-> "01:96:4e:d7:51:42:de",
     request_ip |-> "10.38.1.117",
     vendor_class_identifier |-> "android-dhcp-11",
     host_name |-> "OnePlus-9-5G"]

\* TIME: starts a message; request is the line of option 53 with message
\* type 3 (DHCPREQUEST), discover the one with message type 1.
StreamLines ==
    {[kind |-> k, value |-> ""] : k \in {"time", "request", "discover"}}
    \cup {[kind |-> k, value |-> OptionValue[k]] : k \in Keys}

Streams == UNION {[1..k -> StreamLines] : k \in 0..MaxLines}

\* lines 35-36: re.search(pattern, data) finds the first line of data that
\* is the option of key; group(1) is its value, None without a match.
Match(key, data) ==
    LET hits == {i \in 1..Len(data) : data[i].kind = key}
    IN  IF hits = {} THEN "None"
        ELSE data[CHOOSE i \in hits : \A j \in hits : i <= j].value

\* parse_dhcp_request(data), data a text of one or more lines.
parse_dhcp_request(data) == [key \in Keys |-> Match(key, data)]

\* line 73: the marker of a DHCPREQUEST is a substring of the line.
IsRequest(line) == line.kind = "request"

\* The SSH connection is up, the command runs, the file is open, start_time
\* is taken: the first pass of the loop awaits readline.
InitQ6 ==
    /\ stream \in Streams
    /\ pos = 0
    /\ file = <<>>
    /\ lpc = "loop"
    /\ Q4Idle /\ Q1Idle /\ Q5Idle /\ Q3Idle

\* lines 69-88: readline returns the next line, or "" at end of stream and
\* the loop is left.  A line with the marker is handed to
\* parse_dhcp_request and the record is written.
readline ==
    /\ lpc = "loop"
    /\ IF pos = Len(stream)
       THEN /\ lpc' = "done"
            /\ UNCHANGED <<pos, file>>
       ELSE /\ pos' = pos + 1
            /\ lpc' = "loop"
            /\ file' = IF IsRequest(stream[pos + 1])
                       THEN Append(file,
                                   parse_dhcp_request(<<stream[pos + 1]>>))
                       ELSE file
    /\ UNCHANGED stream
    /\ UNCHANGED <<vars, q1vars, q5vars, q3vars>>

\* line 68: after a pass the loop test finds 300 seconds gone.
time_up ==
    /\ lpc = "loop"
    /\ pos >= 1
    /\ lpc' = "timed_out"
    /\ UNCHANGED <<stream, pos, file>>
    /\ UNCHANGED <<vars, q1vars, q5vars, q3vars>>

\* lines 92-93: readline raises (the connection broke); the error is logged
\* and the function ends.
read_error ==
    /\ lpc = "loop"
    /\ lpc' = "failed"
    /\ UNCHANGED <<stream, pos, file>>
    /\ UNCHANGED <<vars, q1vars, q5vars, q3vars>>

NextQ6 ==
    \/ readline
    \/ time_up
    \/ read_error

SpecQ6 == InitQ6 /\ [][NextQ6]_q6vars

(***************************************************************************)
(* Properties                                                              *)
(***************************************************************************)

\* The ids of the records of a batch, in order.
BatchIds(batch) == [i \in 1..Len(batch) |-> batch[i][1]]

\* Every row named in batch holds the values of its record in table t.
BatchApplied(t, batch) ==
    \A i \in 1..Len(batch) :
        batch[i][1] \in DOMAIN t =>
            t[batch[i][1]] = CompletedRow(batch[i][2], batch[i][3])

\* Some committed batch holds the record.
Committed(rec) ==
    \E i \in 1..Len(committed) :
        \E k \in 1..Len(committed[i]) : committed[i][k] = rec

\* The accumulator was ended by a storage fault inside a flush.
FlushFailed == apc = "crashed" /\ stop_point[1] \in FlushPoints

\* C1: in a run with no storage fault and no measurement fault, when main
\* has exited every one of the n_tasks published records has been committed
\* and every targeted row is 'completed'.
C1_NoRecordLost ==
    (mpc = "done" /\ apc # "crashed") =>
        /\ Len(published) = n_tasks
        /\ \A i \in 1..Len(published) : Committed(published[i])
        /\ \A id \in TaskIds : tasks[id].status = "completed"

\* C2: cancel() never ends the accumulator inside a flush without that
\* flush's transaction having committed: a step that takes the accumulator
\* from BEGIN, an UPDATE or commit to cancelled commits the batch.
C2_CancelOnlyBetweenFlushes ==
    [][(apc \in FlushPoints /\ apc' = "cancelled") =>
           committed' = Append(committed, updates)]_vars

\* C3: a flush applies all of its records or none.  While a transaction is
\* open the committed table does not change; a storage fault or a
\* cancellation before commit leaves the table as it was; the step that ends
\* the transaction either leaves the table as it was or leaves every row of
\* the batch updated and every other row as it was.
C3_FlushAtomicity ==
    [][/\ (apc \in FlushPoints /\ apc' \in FlushPoints) => tasks' = tasks
       /\ (apc \in {"begin", "update"} /\ apc' \notin FlushPoints) =>
             tasks' = tasks
       /\ (apc \in FlushPoints /\ apc' \notin FlushPoints) =>
             \/ tasks' = tasks
             \/ /\ DOMAIN tasks' = DOMAIN tasks
                /\ BatchApplied(tasks', updates)
                /\ \A id \in DOMAIN tasks :
                      (\A i \in 1..Len(updates) : updates[i][1] # id) =>
                          tasks'[id] = tasks[id]]_vars

\* A storage fault hit the second UPDATE of a batch whose first UPDATE had
\* run; both rows are as seeded.
C3_Witness ==
    /\ apc = "crashed"
    /\ stop_point = <<"update", 1>>
    /\ Len(updates) > 1
    /\ \A i \in 1..Len(updates) : tasks[updates[i][1]] = SeedRow

\* C4: a storage fault in a flush does not end the accumulator.
C4_AccumulatorSurvivesFlushFault == ~FlushFailed

\* C5: a run with a failed flush still terminates: main is never left
\* waiting with nothing able to happen.
C5_RunTerminatesAfterFlushFault ==
    FlushFailed => (mpc \in {"done", "failed"} \/ ENABLED Next)

\* C6 (state part): every row is 'pending' or 'completed', and no task id is
\* named by two UPDATEs, in one flush or in two.
C6_StateInv ==
    /\ \A id \in DOMAIN tasks : tasks[id].status \in {"pending", "completed"}
    /\ \A i, j \in 1..Len(started) :
          \A a \in 1..Len(started[i]), b \in 1..Len(started[j]) :
              started[i][a][1] = started[j][b][1] => (i = j /\ a = b)

\* C6 (step part): no row is deleted and no completed row leaves 'completed'.
C6_Step ==
    \A id \in DOMAIN tasks :
        /\ id \in DOMAIN tasks'
        /\ tasks[id].status = "completed" => tasks'[id].status = "completed"

\* C6: within one run every row goes from 'pending' to 'completed' at most
\* once: its status is one of the two, it never goes back, it is written by
\* at most one flush and it is never deleted.
C6_AtMostOnce == [](C6_StateInv) /\ [][C6_Step]_vars

\* Two flushes committed, one full and one cut off by the timeout, and every
\* targeted row is completed.
C6_Witness ==
    /\ Len(committed) = 2
    /\ \A id \in TaskIds : tasks[id].status = "completed"
    /\ n_tasks > MAX_BATCH

\* C7: in every committed state a row is (pending, 0, 0) or it is completed
\* with the usage values of a record published for its id (by this run, or
\* the values an earlier run left in it); never completed with both seed
\* values, never pending with a usage value set.
C7_StatusAndUsageTogether ==
    \A id \in DOMAIN tasks :
        /\ \/ tasks[id] = SeedRow
           \/ /\ tasks[id].status = "completed"
              /\ \/ \E i \in 1..Len(published) :
                       published[i] = <<id, tasks[id].cpu_usage,
                                        tasks[id].memory_usage>>
                 \/ id \in DOMAIN prior_tasks /\ tasks[id] = prior_tasks[id]
        /\ tasks[id].status = "completed" =>
              ~(tasks[id].cpu_usage = 0 /\ tasks[id].memory_usage = 0)
        /\ tasks[id].status = "pending" =>
              (tasks[id].cpu_usage = 0 /\ tasks[id].memory_usage = 0)

\* A row seeded by this run was completed by a committed flush while another
\* seeded row is still pending.
C7_Witness ==
    /\ committed # <<>>
    /\ \E id \in seeded : tasks[id].status = "completed"
    /\ \E id \in seeded : tasks[id] = SeedRow

\* C8: once the table is seeded, the ids the workers target are the ids of
\* the rows this run seeded, whatever the table held before.
C8_SeededRowsAreTargeted ==
    mpc \in {"start", "gather", "join", "done"} => seeded = TaskIds

\* C9: the batch, the open transaction and every batch handed to a flush
\* hold at most MAX_BATCH records.
C9_BatchBounded ==
    /\ Len(updates) <= MAX_BATCH
    /\ Len(pending) <= MAX_BATCH
    /\ \A i \in 1..Len(started) : Len(started[i]) <= MAX_BATCH

\* A full batch is about to commit while a further record waits in the queue.
C9_Witness ==
    /\ apc = "commit"
    /\ Len(updates) = MAX_BATCH
    /\ Len(pending) = MAX_BATCH
    /\ update_queue # <<>>

\* The accumulator waits on an empty queue with a partial batch.
IdlePartial ==
    /\ apc = "get"
    /\ update_queue = <<>>
    /\ 0 < Len(updates)
    /\ Len(updates) < MAX_BATCH

\* The step opens exactly one flush, of exactly the current batch.
FlushBegins ==
    /\ apc' = "begin"
    /\ updates' = updates
    /\ started' = Append(started, updates)

RECURSIVE Flatten(_)
Flatten(batches) ==
    IF batches = <<>> THEN <<>>
    ELSE Head(batches) \o Flatten(Tail(batches))

IsPrefix(a, b) == Len(a) <= Len(b) /\ SubSeq(b, 1, Len(a)) = a

\* The flush of the current batch has begun (it is the last of started).
CurrentStarted ==
    \/ apc \in FlushPoints
    \/ apc \in {"crashed", "cancelled"} /\ stop_point[1] \in FlushPoints

\* Every record the accumulator has taken, in the order it was appended.
Received == Flatten(started) \o (IF CurrentStarted THEN <<>> ELSE updates)

\* C11: a fault-free run of n_tasks records, n_tasks a multiple of MAX_BATCH,
\* in which no partial batch was cut off by the timeout, has committed exactly
\* n_tasks / MAX_BATCH transactions of MAX_BATCH records each when it exits.
C11_FullBatchesCommitted ==
    (/\ mpc = "done"
     /\ apc # "crashed"
     /\ n_tasks % MAX_BATCH = 0
     /\ \A i \in 1..Len(started) : Len(started[i]) = MAX_BATCH) =>
        /\ Len(committed) = n_tasks \div MAX_BATCH
        /\ \A i \in 1..Len(committed) : Len(committed[i]) = MAX_BATCH

\* C12: the batches handed to flush, concatenated in flush order, are a
\* prefix of the records in the order they were put on the queue.
C12_FifoOrder == IsPrefix(Flatten(started), published)

\* Two batches were handed to flush, holding three records that were
\* published in an order other than that of their ids.
C12_Witness ==
    /\ Len(started) = 2
    /\ Len(Flatten(started)) = 3
    /\ Flatten(started)[1][1] # 1

\* C13: no task id is published twice, and the records published are exactly
\* the records taken into batches followed by those still queued: none is
\* dropped between get() and append, none is in two batches or twice in one.
C13_OneWorkerOneBatch ==
    /\ \A i, j \in 1..Len(published) :
          published[i][1] = published[j][1] => i = j
    /\ published = Received \o update_queue
    /\ unfinished_tasks = Len(update_queue)

\* One record sits in a committed batch, one in the current batch and one in
\* the queue.
C13_Witness ==
    /\ Len(committed) = 1
    /\ apc = "get"
    /\ Len(updates) = 1
    /\ Len(update_queue) = 1

\* setup_database and populate_tasks both succeeded.
StartupDone ==
    /\ table_exists
    /\ Len(tasks) = Len(prior_tasks) + n_tasks
    /\ Cardinality(seeded) = n_tasks
    /\ seeded \subseteq DOMAIN tasks

\* The accumulator or a worker has been started.
AnyStarted == apc # "unstarted" \/ \E w \in Workers : wpc[w] # "unstarted"

\* C14: the table is set up and seeded before the accumulator or any worker
\* is started; the accumulator is started before any record is published;
\* main has stopped the accumulator only after every worker was done and the
\* queue was drained; when main is done the accumulator has terminated.
C14_OrchestratorSequence ==
    /\ AnyStarted => (mpc \notin {"setup", "populate", "start"} /\ StartupDone)
    /\ published # <<>> => apc # "unstarted"
    /\ mpc = "done" =>
          /\ \A w \in TaskIds : wpc[w] = "done"
          /\ update_queue = <<>>
          /\ unfinished_tasks = 0
          /\ apc \in {"cancelled", "crashed"}

\* main went through the whole sequence with a flush committed on the way.
C14_Witness ==
    /\ mpc = "done"
    /\ n_tasks = NumTasks
    /\ committed # <<>>
    /\ apc = "cancelled"

\* C15: with no task the run goes from start to done in one step of main,
\* without waiting at gather or join and without the accumulator ever
\* connecting or waiting; no flush starts, the table keeps its content and
\* main fails only on a storage fault of setup_database or populate_tasks.
C15_ZeroSeed ==
    n_tasks = 0 =>
        /\ mpc \in {"setup", "populate", "start", "done", "failed"}
        /\ apc \in {"unstarted", "cancelled"}
        /\ started = <<>>
        /\ committed = <<>>
        /\ tasks = prior_tasks
        /\ mpc = "failed" => apc = "unstarted"
        /\ mpc \notin {"done", "failed"} => ENABLED Next

\* A run with no task is done, on a table that held a row before.
C15_Witness ==
    /\ n_tasks = 0
    /\ mpc = "done"
    /\ tasks # <<>>
    /\ stop_point = <<"unstarted", 0>>

\* C16: a worker whose measurement failed has published (task_id, 0, 0), and
\* main does not fail because of it (main fails at startup only).
C16_MeasurementFaultAbsorbed ==
    /\ \A w \in TaskIds :
          wpc[w] = "failed" =>
              \E i \in 1..Len(published) : published[i] = <<w, 0, 0>>
    /\ mpc = "failed" => apc = "unstarted"

\* main ended with the error of setup_database or populate_tasks.
StartupFailed == mpc = "failed" /\ apc = "unstarted"

\* C17: nothing is started, published or flushed unless setup_database and
\* populate_tasks both succeeded; after a failed startup no worker and no
\* accumulator exists, the table is as it was and nothing more happens.
C17_StartupFaultIsFatal ==
    /\ (\/ mpc \in {"start", "gather", "join", "done"}
        \/ AnyStarted
        \/ published # <<>>
        \/ started # <<>>) => StartupDone
    /\ StartupFailed =>
          /\ \A w \in Workers : wpc[w] = "unstarted"
          /\ published = <<>>
          /\ started = <<>>
          /\ tasks = prior_tasks
          /\ ~ENABLED Next

\* populate_tasks failed on an existing table that was to get rows.
C17_Witness ==
    /\ StartupFailed
    /\ table_exists
    /\ n_tasks > 0
    /\ seeded = {}

\* C18: the queue respects a capacity that does not grow with the number of
\* workers: with NumTasks workers it never holds NumTasks records at once,
\* the worker that would exceed the capacity being suspended in put.
C18_ChannelBounded == Len(update_queue) < NumTasks

\* C19: setup_database changes no row of an existing table, and
\* populate_tasks adds exactly n_tasks rows (pending, 0, 0) under fresh ids
\* and leaves every earlier row as it was.
C19_InitIdempotentSeedAdditive ==
    /\ mpc = "populate" => (table_exists /\ tasks = prior_tasks)
    /\ mpc = "start" =>
          /\ Len(tasks) = Len(prior_tasks) + n_tasks
          /\ \A id \in DOMAIN prior_tasks : tasks[id] = prior_tasks[id]
          /\ seeded \cap DOMAIN prior_tasks = {}
          /\ seeded = DOMAIN tasks \ DOMAIN prior_tasks
          /\ \A id \in seeded : tasks[id] = SeedRow
    /\ mpc \in {"gather", "join", "done"} =>
          Len(tasks) = Len(prior_tasks) + n_tasks

\* Rows were seeded behind a row that an earlier run had completed.
C19_Witness ==
    /\ mpc = "start"
    /\ n_tasks > 1
    /\ prior_tasks # <<>>
    /\ prior_tasks[1].status = "completed"
    /\ tasks[1] = prior_tasks[1]

\* C20: when join() lets main go on, and when main is done, the queue is
\* empty, every worker is done, all n_tasks records have been published and
\* every one of them has been taken into a batch.
C20_DrainObserved ==
    ((mpc = "join" /\ unfinished_tasks = 0) \/ mpc = "done") =>
        /\ update_queue = <<>>
        /\ \A w \in TaskIds : wpc[w] = "done"
        /\ Len(published) = n_tasks
        /\ published = Received

\* main waits in join() with the last record taken into a partial batch
\* behind a committed one: the wait is over, nothing is queued.
C20_Witness ==
    /\ mpc = "join"
    /\ unfinished_tasks = 0
    /\ committed # <<>>
    /\ updates # <<>>
    /\ apc = "get"

\* C21: no empty batch is ever flushed.  Every batch whose flush began and
\* every committed batch holds at least one record, there are at most as many
\* flushes as records received, and the accumulator is never inside a
\* transaction with an empty batch.
C21_NoEmptyFlush ==
    /\ \A i \in 1..Len(started) : started[i] # <<>>
    /\ \A i \in 1..Len(committed) : committed[i] # <<>>
    /\ Len(started) <= Len(Received)
    /\ (apc \in FlushPoints => updates # <<>>)

\* After a committed flush the accumulator waits with an empty batch on an
\* empty queue while a worker still sleeps: the timeout can fire here.
C21_Witness ==
    /\ apc = "get"
    /\ updates = <<>>
    /\ update_queue = <<>>
    /\ ~MainRunnable
    /\ committed # <<>>
    /\ \E w \in TaskIds : wpc[w] = "sleeping"

\* ssh_connect has been entered for ip.
SshEntered(ip) == ping_result[ip] = "active"

\* C22: ssh_connect makes at most retries connection attempts and cannot
\* loop for ever (every attempt made is either the one in progress, the one
\* that ended the call, or a counted failure, and the count never passes
\* retries); it returns True only from an attempt that follows failures
\* alone and makes no attempt after it; it returns False exactly when it
\* has ended with all retries attempts failed; with retries = 0 it returns
\* False without an attempt.
C22_SshConnectBounded ==
    \A ip \in Ips :
        /\ connects[ip] <= retries
        /\ attempt[ip] <= retries
        /\ connects[ip] = attempt[ip] +
               (IF ppc[ip] = "connect" \/ ssh_result[ip] \in {"True", "raised"}
                   \/ (ppc[ip] = "cancelled" /\ connects[ip] > attempt[ip])
                THEN 1 ELSE 0)
        /\ (ssh_result[ip] = "True" =>
               /\ ppc[ip] = "done"
               /\ attempt[ip] < retries
               /\ connects[ip] = attempt[ip] + 1)
        /\ (ssh_result[ip] = "False" <=>
               /\ SshEntered(ip)
               /\ ppc[ip] = "done"
               /\ attempt[ip] = retries
               /\ connects[ip] = retries)
        /\ (SshEntered(ip) /\ retries = 0 =>
               ssh_result[ip] = "False" /\ connects[ip] = 0)
        /\ (ppc[ip] \in {"connect", "sleep"} /\ q1_mpc = "gather" =>
               ENABLED (ssh_connect_ok(ip) \/ ssh_connect_error(ip)
                        \/ ssh_connect_retry(ip)))

\* With retries = 3 one ssh_connect has returned True from its second
\* attempt and another has returned False after three failed attempts.
C22_Witness ==
    /\ retries = MaxRetries
    /\ \E ip \in Ips :
          ssh_result[ip] = "True" /\ attempt[ip] = 1 /\ connects[ip] = 2
    /\ \E ip \in Ips :
          ssh_result[ip] = "False" /\ connects[ip] = retries

\* The row of ip in ip_addresses is <<ip, a, s>>.
IpRow(ip, a, s) == <<ip, a, s>> \in ip_addresses

\* C23: whatever the interleaving of the process_ip coroutines, no row of
\* ip_addresses has is_ssh_connected = 1 with is_active = 0 and no ip has
\* two rows; an active ip is recorded as (1, 0) from before its first SSH
\* attempt until ssh_connect returns, and ends as (1, 1) exactly when
\* ssh_connect returned True; an ip whose ping failed ends as (0, 0) with no
\* SSH attempt.
C23_IpTableConsistent ==
    /\ \A row \in ip_addresses : ~(row[3] = 1 /\ row[2] = 0)
    /\ \A r1, r2 \in ip_addresses : r1[1] = r2[1] => r1 = r2
    /\ \A ip \in Ips :
          /\ (connects[ip] > 0 => SshEntered(ip))
          /\ (SshEntered(ip) /\ ssh_result[ip] # "True" => IpRow(ip, 1, 0))
          /\ (SshEntered(ip) /\ ppc[ip] = "done" =>
                 (IpRow(ip, 1, 1) <=> ssh_result[ip] = "True"))
          /\ (ssh_result[ip] = "True" => IpRow(ip, 1, 1))
          /\ (ping_result[ip] = "inactive" =>
                 /\ ppc[ip] = "done"
                 /\ IpRow(ip, 0, 0)
                 /\ connects[ip] = 0)

\* The scan is over: the first ip ended as (1, 1) after a failed attempt,
\* the second did not answer the ping and its row is (0, 0).
C23_Witness ==
    /\ q1_mpc = "done"
    /\ ip_addresses = {<<1, 1, 1>>, <<2, 0, 0>>}
    /\ attempt[1] = 1

\* C24: execute_on_network closes every connection it opened, on every
\* path: when it has ended, every connection opened is closed; when a
\* connect failed no command was started and the error leaves the function;
\* when all connects succeeded every host's command has a result (the empty
\* string for a failed one), whatever happened to the others.
C24_EveryConnectionClosed ==
    /\ (epc \in {"done", "failed"} => closed = opened)
    /\ (error => \A j \in 1..Len(hosts) : results[j] = "unstarted")
    /\ (error /\ epc # "closing" => epc = "failed")
    /\ (epc = "done" =>
           /\ ~error
           /\ Cardinality(opened) = Len(hosts)
           /\ \A j \in 1..Len(hosts) : results[j] \in {"stdout", ""})

\* The requests that carry username u.
RequestsFor(u) == {r \in Requests : req_username[r] = u}

\* C25: when the concurrent requests with one username have all been
\* answered, exactly one of them has succeeded (none if the username was
\* taken before they arrived) and every other one has been answered with
\* the 400 error.
C25_TakenUsernameRejected ==
    \A u \in Usernames :
        (\A r \in RequestsFor(u) : rpc[r] = "done") =>
            /\ Cardinality({r \in RequestsFor(u) : response[r] = 200})
                  = (IF u \in prior_users \/ RequestsFor(u) = {}
                     THEN 0 ELSE 1)
            /\ \A r \in RequestsFor(u) : response[r] \in {200, 400}

\* The positions of the DHCPREQUEST lines among the first n lines.
RequestLines(n) == {p \in 1..n : IsRequest(stream[p])}

\* The position of the j-th DHCPREQUEST line of the stream.
NthRequest(j) ==
    CHOOSE p \in RequestLines(Len(stream)) :
        Cardinality(RequestLines(p)) = j

\* The lines of the message that line p belongs to: from the last TIME: line
\* at or before p to the line before the next TIME: line.
MessageAt(p) ==
    LET starts == {q \in 1..p : stream[q].kind = "time"}
        nexts == {q \in (p + 1)..Len(stream) : stream[q].kind = "time"}
        first == IF starts = {} THEN 1
                 ELSE CHOOSE q \in starts : \A x \in starts : x <= q
        last == IF nexts = {} THEN Len(stream)
                ELSE (CHOOSE q \in nexts : \A x \in nexts : q <= x) - 1
    IN  SubSeq(stream, first, last)

\* The stream is a sequence of messages: it starts with a TIME: line and two
\* message-type lines are always separated by a TIME: line.
WellFormed ==
    /\ stream # <<>>
    /\ stream[1].kind = "time"
    /\ \A p, q \in 1..Len(stream) :
          (/\ p < q
           /\ stream[p].kind \in {"request", "discover"}
           /\ stream[q].kind \in {"request", "discover"})
          => \E x \in (p + 1)..q : stream[x].kind = "time"

\* C26: on a stream of messages, one record is written per DHCPREQUEST
\* message read, and when the loop has ended at the end of the stream the
\* j-th record carries the four fields of the j-th DHCPREQUEST message,
\* None only for an option the message lacks; the loop ends at the end of
\* the stream or when the time is up.
C26_RecordCarriesMessageFields ==
    WellFormed =>
        /\ Len(file) = Cardinality(RequestLines(pos))
        /\ (lpc = "done" =>
               /\ pos = Len(stream)
               /\ \A j \in 1..Len(file) :
                     file[j] = parse_dhcp_request(MessageAt(NthRequest(j))))

====
